---------------------------- MODULE Spec2Model ----------------------------
(***************************************************************************)
(* A model of the peg solitaire solver of src/Description.ts:              *)
(*   - BoardSet, the open-addressing hash set of board states;             *)
(*   - Description, the compiled board (position table, move masks,        *)
(*     symmetry transformations) with its text and array codecs;           *)
(*   - normalize, the canonicalizer generated from the transformations;    *)
(*   - solve, the breadth-first search over the levels of the game.        *)
(* A board state is a natural number (a bigint in the source); bit i is    *)
(* the peg on the cell the position table numbers i.                       *)
(***************************************************************************)
EXTENDS Integers, Sequences, FiniteSets, TLC

VARIABLES
    set,        \* the BoardSet driven by the set specifications
    inserted,   \* history: the values handed to insert/fast_insert so far
    op,         \* history: the last call, its argument, whether it repeats one
    desc,       \* the compiled Description
    start,      \* the argument of solve
    pc,         \* the position of solve in its code
    solution,   \* solve: the levels pushed so far
    current,    \* solve: the frontier being expanded
    next,       \* solve: the frontier being built
    fieldIdx,   \* solve: index into current.data of the field in hand
    moveIdx     \* solve: index i of the inner loop

vars == <<set, inserted, op, desc, start, pc, solution, current, next,
          fieldIdx, moveIdx>>

(***************************************************************************)
(* Bigint arithmetic on the naturals the model uses.                       *)
(***************************************************************************)
RECURSIVE Pow2(_)
Pow2(n) == IF n = 0 THEN 1 ELSE 2 * Pow2(n - 1)

RECURSIVE BitAnd(_, _)
BitAnd(a, b) ==
    IF a = 0 \/ b = 0 THEN 0
    ELSE (a % 2) * (b % 2) + 2 * BitAnd(a \div 2, b \div 2)

RECURSIVE BitOr(_, _)
BitOr(a, b) ==
    IF a = 0 THEN b
    ELSE IF b = 0 THEN a
    ELSE (IF a % 2 = 1 \/ b % 2 = 1 THEN 1 ELSE 0)
         + 2 * BitOr(a \div 2, b \div 2)

RECURSIVE BitXor(_, _)
BitXor(a, b) ==
    IF a = 0 THEN b
    ELSE IF b = 0 THEN a
    ELSE (IF a % 2 = b % 2 THEN 0 ELSE 1) + 2 * BitXor(a \div 2, b \div 2)

\* a << n on bigints: a negative count shifts right
Shl(a, n) == IF n >= 0 THEN a * Pow2(n) ELSE a \div Pow2(0 - n)

\* a >> n on bigints
Shr(a, n) == IF n >= 0 THEN a \div Pow2(n) ELSE a * Pow2(0 - n)

RECURSIVE PopCount(_)
PopCount(a) == IF a = 0 THEN 0 ELSE (a % 2) + PopCount(a \div 2)

Min(a, b) == IF a < b THEN a ELSE b

(***************************************************************************)
(* BoardSet                                                                *)
(* A set is the record [data, length]; data[i + 1] is _data[i].            *)
(***************************************************************************)
EMPTY_STATE == 0

INITIAL_SIZE == 32

\* 0x85ebca6b = HashMultiplierHigh * 65536 + HashMultiplierLow
HashMultiplierHigh == 34283
HashMultiplierLow == 51819

\* new BigUint64Array(n): n zeros, as a sequence
Zeros(n) == SubSeq([i \in 1..n |-> EMPTY_STATE], 1, n)


\* a faulty test, which lets the table fill to three quarters
size_fits_up_to_three_quarters(expected, cur) == 4 * expected <= 3 * cur

size_fits_into_capacity(expected, cur) == 4 * expected < 3 * cur

RECURSIVE compute_capacity_for_size(_, _)
compute_capacity_for_size(expected, cur) ==
    IF size_fits_into_capacity(expected, cur) THEN cur
    ELSE compute_capacity_for_size(expected, 2 * cur)

\* (value * 0x85ebca6b) modulo m, for m a power of two from 65536 on; the
\* product is taken in two halves to stay inside TLC's integers
HashProductMod(value, m) ==
    (((value * HashMultiplierHigh) % (m \div 65536)) * 65536
        + value * HashMultiplierLow) % m

\* h = value * 0x85ebca6b; h ^= h >> 13; h & (capacity - 1): only the low
\* 13 + log2(capacity) bits of the product reach the result
get_index_from_state(value, capacity) ==
    LET h == HashProductMod(value, 8192 * capacity)
    IN  BitXor(h % capacity, Shr(h, 13) % capacity)

\* the probe of find_or_empty from index, n slots already seen; -1 stands
\* for the loop never ending (no empty slot and no slot holding o)
RECURSIVE Probe(_, _, _, _)
Probe(data, o, index, n) ==
    IF n = Len(data) THEN -1
    ELSE IF data[index + 1] = EMPTY_STATE \/ data[index + 1] = o THEN index
    ELSE Probe(data, o, (index + 1) % Len(data), n + 1)

find_or_empty(data, o) ==
    Probe(data, o, get_index_from_state(o, Len(data)), 0)

BoardSetNew(expected_size) ==
    [data   |-> Zeros(compute_capacity_for_size(expected_size, INITIAL_SIZE)),
     length |-> 0]

contains(bs, value) == bs.data[find_or_empty(bs.data, value) + 1] # EMPTY_STATE

\* a faulty fast_insert, which counts a value the table already holds
fast_insert_counting_repeats(bs, o) ==
    LET index == find_or_empty(bs.data, o)
    IN  [data |-> [bs.data EXCEPT ![index + 1] = o],
         length |-> bs.length + 1]

fast_insert(bs, o) ==
    LET index == find_or_empty(bs.data, o)
    IN  IF bs.data[index + 1] = EMPTY_STATE
        THEN [data |-> [bs.data EXCEPT ![index + 1] = o],
              length |-> bs.length + 1]
        ELSE bs

RECURSIVE FastInsertFrom(_, _, _)
FastInsertFrom(bs, other, k) ==
    IF k > Len(other) THEN bs
    ELSE FastInsertFrom(fast_insert(bs, other[k]), other, k + 1)

IsState(d) == d # EMPTY_STATE


\* a faulty loop, which starts at the second slot of other
fast_insert_all_from_second_slot(bs, other) ==
    FastInsertFrom(bs, SelectSeq(Tail(other), IsState), 1)

\* for (const d of other) if (d != EMPTY_STATE) this.fast_insert(d)
fast_insert_all(bs, other) ==
    FastInsertFrom(bs, SelectSeq(other, IsState), 1)


\* a faulty reserve, which makes room for the elements already present only
reserve_for_present(bs, additional) ==
    LET expected_size == bs.length
    IN  IF size_fits_into_capacity(expected_size, Len(bs.data)) THEN bs
        ELSE LET new_obj == IF bs.length # 0
                            THEN fast_insert_all(BoardSetNew(expected_size),
                                                 bs.data)
                            ELSE BoardSetNew(expected_size)
             IN  [data |-> new_obj.data, length |-> bs.length]

reserve(bs, additional) ==
    LET expected_size == bs.length + additional
    IN  IF size_fits_into_capacity(expected_size, Len(bs.data)) THEN bs
        ELSE LET new_obj == IF bs.length # 0
                            THEN fast_insert_all(BoardSetNew(expected_size),
                                                 bs.data)
                            ELSE BoardSetNew(expected_size)
             IN  [data |-> new_obj.data, length |-> bs.length]

clear(bs) == [data |-> Zeros(Len(bs.data)), length |-> 0]

insert(bs, value) == fast_insert(reserve(bs, 1), value)


\* used(): the fill ratio as a fraction, 1 for a set of length 0
used(bs) ==
    IF bs.length = 0 THEN [numerator |-> 1, denominator |-> 1]
    ELSE [numerator |-> bs.length, denominator |-> Len(bs.data)]

\* the non-zero values the backing array holds
Stored(bs) == {bs.data[i] : i \in 1..Len(bs.data)} \ {EMPTY_STATE}

\* the slots of the backing array that hold v
SlotsOf(bs, v) == {i \in 1..Len(bs.data) : bs.data[i] = v}

NonEmptySlots(bs) == {i \in 1..Len(bs.data) : bs.data[i] # EMPTY_STATE}

(***************************************************************************)
(* Description: construction                                               *)
(* A layout is the sequence of its characters; a Lut is a sequence of rows *)
(* and lut[y + 1][x + 1] is the source's lut[y][x].                        *)
(***************************************************************************)
MoveDirections == {"Horizontal", "Vertical", "LeftDiagonal", "RightDiagonal"}

\* layout.split("\n"): a separator closes a line, also an empty one
RECURSIVE SplitFrom(_, _, _)
SplitFrom(layout, k, lines) ==
    IF k > Len(layout) THEN lines
    ELSE IF layout[k] = "\n"
         THEN SplitFrom(layout, k + 1, Append(lines, <<>>))
         ELSE SplitFrom(layout, k + 1,
                        [lines EXCEPT ![Len(lines)] = Append(@, layout[k])])

Split(layout) == SplitFrom(layout, 1, << <<>> >>)


\* a faulty count, which takes every cell for a peg
CountCells(layout) == Cardinality({k \in 1..Len(layout) : layout[k] # "\n"})

CountPegs(layout) == Cardinality({k \in 1..Len(layout) : layout[k] = "o"})

\* lines.map(length).reduce((a, c) => a === c ? c : -1)
RECURSIVE ReduceLengths(_, _, _)
ReduceLengths(lines, k, accumulator) ==
    IF k > Len(lines) THEN accumulator
    ELSE ReduceLengths(lines, k + 1,
                       IF accumulator = Len(lines[k]) THEN Len(lines[k])
                       ELSE -1)

\* the 'o' characters the scan has passed before row y, column x (from 1)
PegsBefore(lines, y, x) ==
    Cardinality({p \in (1..Len(lines)) \X (1..Len(lines[y])) :
                    /\ p[2] <= Len(lines[p[1]])
                    /\ lines[p[1]][p[2]] = "o"
                    /\ (p[1] < y \/ (p[1] = y /\ p[2] < x))})


\* a faulty table, which numbers the pegs upwards from 0
BuildLutAscending(lines, pegs) ==
    [y \in 1..Len(lines) |->
        [x \in 1..Len(lines[y]) |->
            IF lines[y][x] = "o" THEN PegsBefore(lines, y, x)
            ELSE -1]]

\* pos starts at pegs and is decremented before each 'o' is numbered
BuildLut(lines, pegs) ==
    [y \in 1..Len(lines) |->
        [x \in 1..Len(lines[y]) |->
            IF lines[y][x] = "o" THEN pegs - 1 - PegsBefore(lines, y, x)
            ELSE -1]]


\* a faulty table of neighbours, which lets a RightDiagonal jump start in
\* column 2
NeighboursFromColumnTwo(dir, x, y) ==
    CASE dir = "Horizontal" ->
            [valid |-> TRUE, x1 |-> x + 1, y1 |-> y, x2 |-> x + 2, y2 |-> y]
      [] dir = "Vertical" ->
            [valid |-> TRUE, x1 |-> x, y1 |-> y + 1, x2 |-> x, y2 |-> y + 2]
      [] dir = "LeftDiagonal" ->
            [valid |-> TRUE, x1 |-> x + 1, y1 |-> y + 1,
             x2 |-> x + 2, y2 |-> y + 2]
      [] dir = "RightDiagonal" ->
            IF x >= 2
            THEN [valid |-> TRUE, x1 |-> x - 1, y1 |-> y + 1,
                  x2 |-> x - 2, y2 |-> y + 2]
            ELSE [valid |-> FALSE, x1 |-> 0, y1 |-> 0, x2 |-> 0, y2 |-> 0]

\* the two cells a jump from (x, y) passes, per direction (x, y from 0)
Neighbours(dir, x, y) ==
    CASE dir = "Horizontal" ->
            [valid |-> TRUE, x1 |-> x + 1, y1 |-> y, x2 |-> x + 2, y2 |-> y]
      [] dir = "Vertical" ->
            [valid |-> TRUE, x1 |-> x, y1 |-> y + 1, x2 |-> x, y2 |-> y + 2]
      [] dir = "LeftDiagonal" ->
            [valid |-> TRUE, x1 |-> x + 1, y1 |-> y + 1,
             x2 |-> x + 2, y2 |-> y + 2]
      [] dir = "RightDiagonal" ->
            IF x > 2
            THEN [valid |-> TRUE, x1 |-> x - 1, y1 |-> y + 1,
                  x2 |-> x - 2, y2 |-> y + 2]
            ELSE [valid |-> FALSE, x1 |-> 0, y1 |-> 0, x2 |-> 0, y2 |-> 0]

\* the descriptor pushed for cell (x, y) and direction dir, if any
DescriptorsFor(lut, dir, x, y) ==
    LET y_max == Len(lut)
        x_max == Len(lut[1])
        n == Neighbours(dir, x, y)
    IN  IF /\ n.valid
           /\ n.x1 < x_max /\ n.y1 < y_max /\ lut[n.y1 + 1][n.x1 + 1] # -1
           /\ n.x2 < x_max /\ n.y2 < y_max /\ lut[n.y2 + 1][n.x2 + 1] # -1
        THEN LET a == Shl(1, lut[y + 1][x + 1])
                 b == Shl(1, lut[n.y1 + 1][n.x1 + 1])
                 c == Shl(1, lut[n.y2 + 1][n.x2 + 1])
             IN  << [move_mask   |-> BitOr(BitOr(a, b), c),
                     check_mask1 |-> BitOr(a, b),
                     check_mask2 |-> BitOr(b, c)] >>
        ELSE <<>>

RECURSIVE DescriptorsOfCell(_, _, _, _, _)
DescriptorsOfCell(lut, directions, x, y, d) ==
    IF d > Len(directions) THEN <<>>
    ELSE DescriptorsFor(lut, directions[d], x, y)
         \o DescriptorsOfCell(lut, directions, x, y, d + 1)

\* the loops over y, x and the directions; cell k is (k % x_max, k / x_max)
RECURSIVE DescriptorsFrom(_, _, _)
DescriptorsFrom(lut, directions, k) ==
    LET x_max == Len(lut[1])
        x == k % x_max
        y == k \div x_max
    IN  IF k >= Len(lut) * x_max THEN <<>>
        ELSE (IF lut[y + 1][x + 1] = -1 THEN <<>>
              ELSE DescriptorsOfCell(lut, directions, x, y, 1))
             \o DescriptorsFrom(lut, directions, k + 1)

MoveTable(lut, directions) == DescriptorsFrom(lut, directions, 0)

(***************************************************************************)
(* Description: the text and array codecs                                  *)
(* A call that can throw returns [error, value]; error = "" is a return.   *)
(***************************************************************************)
Return(v) == [error |-> "", value |-> v]

Throw(message, v) == [error |-> message, value |-> v]

\* a faulty range test, which turns the largest state away
OutOfRangeFromLargest(d, state) == d.pegs < 64 /\ state >= Shl(1, d.pegs) - 1

\* state > (1n << pegs) - 1n, the range test of to_string and to_vec
OutOfRange(d, state) == d.pegs < 64 /\ state > Shl(1, d.pegs) - 1

\* the 'o' characters of the layout before position k (from 1)
PegsBeforeChar(layout, k) ==
    Cardinality({j \in 1..(k - 1) : layout[j] = "o"})

\* a faulty to_string, which reads pos before decrementing it
to_string_late_decrement(d, state) ==
    IF OutOfRange(d, state)
    THEN Throw("state does not describe a valid game field", <<>>)
    ELSE Return([k \in 1..Len(d.layout) |->
            CASE d.layout[k] = "."  -> " "
              [] d.layout[k] = "\n" -> "\n"
              [] d.layout[k] = "o"  ->
                    LET pos == d.pegs - PegsBeforeChar(d.layout, k)
                    IN  IF BitAnd(state, Shl(1, pos)) # 0 THEN "x" ELSE "."])


\* a faulty to_string, which numbers the pegs from the lowest bit
to_string_from_low_bit(d, state) ==
    IF OutOfRange(d, state)
    THEN Throw("state does not describe a valid game field", <<>>)
    ELSE Return([k \in 1..Len(d.layout) |->
            CASE d.layout[k] = "."  -> " "
              [] d.layout[k] = "\n" -> "\n"
              [] d.layout[k] = "o"  ->
                    LET pos == PegsBeforeChar(d.layout, k)
                    IN  IF BitAnd(state, Shl(1, pos)) # 0 THEN "x" ELSE "."])

to_string(d, state) ==
    IF OutOfRange(d, state)
    THEN Throw("state does not describe a valid game field", <<>>)
    ELSE Return([k \in 1..Len(d.layout) |->
            CASE d.layout[k] = "."  -> " "
              [] d.layout[k] = "\n" -> "\n"
              [] d.layout[k] = "o"  ->
                    LET pos == d.pegs - (PegsBeforeChar(d.layout, k) + 1)
                    IN  IF BitAnd(state, Shl(1, pos)) # 0 THEN "x" ELSE "."])

\* a faulty test, which lets a space stand on an occupiable cell
StructureMatchesOrSpace(d, state) ==
    \A i \in 1..Len(d.layout) :
        CASE d.layout[i] = "o"  -> state[i] \in {"x", ".", " "}
          [] d.layout[i] = "."  -> state[i] = " "
          [] d.layout[i] = "\n" -> state[i] = "\n"
          [] OTHER -> FALSE

\* layout.split("").every(...): the character of state under each of layout
StructureMatches(d, state) ==
    \A i \in 1..Len(d.layout) :
        CASE d.layout[i] = "o"  -> state[i] = "x" \/ state[i] = "."
          [] d.layout[i] = "."  -> state[i] = " "
          [] d.layout[i] = "\n" -> state[i] = "\n"
          [] OTHER -> FALSE

\* the scan of state.split("").reverse(), character k (from 1) in hand
RECURSIVE FromStringScan(_, _, _, _, _)
FromStringScan(d, state, k, pos, result) ==
    IF k = 0
    THEN IF pos > d.pegs THEN Throw("invalid state", 0) ELSE Return(result)
    ELSE IF pos > d.pegs THEN Throw("invalid state", 0)
    ELSE IF state[k] \in {"\n", " ", "\t"}
         THEN FromStringScan(d, state, k - 1, pos, result)
    ELSE IF state[k] = "x"
         THEN FromStringScan(d, state, k - 1, pos + 1,
                             BitOr(result, Shl(1, pos)))
    ELSE IF state[k] = "."
         THEN FromStringScan(d, state, k - 1, pos + 1, result)
    ELSE Throw("invalid state", 0)

from_string(d, state) ==
    IF Len(state) # Len(d.layout)
    THEN Throw("state length does not match the layout length", 0)
    ELSE IF ~StructureMatches(d, state) THEN Throw("invalid state", 0)
    ELSE FromStringScan(d, state, Len(state), 0, EMPTY_STATE)

to_vec(d, state) ==
    IF OutOfRange(d, state) THEN Throw("invalid state", <<>>)
    ELSE Return([y \in 1..Len(d.lut) |->
            [x \in 1..Len(d.lut[y]) |->
                IF d.lut[y][x] = -1 THEN -1
                ELSE IF BitAnd(state, Shl(1, d.lut[y][x])) = 0 THEN 0
                ELSE 1]])

\* the loops of from_vec over y < state.length and x < state[0].length,
\* cell k = y * state[0].length + x in hand.  Reading past a row of state
\* or of lut gives undefined; reading a cell of a missing row of lut, or
\* BigInt(undefined), is a TypeError.
RECURSIVE FromVecScan(_, _, _, _)
FromVecScan(d, state, k, r) ==
    LET w == Len(state[1])
        y == k \div w
        x == k % w
        hasEntry == x < Len(state[y + 1])
        hasRow   == y < Len(d.lut)
        hasCell  == hasRow /\ x < Len(d.lut[y + 1])
    IN  IF w = 0 \/ k >= Len(state) * w THEN Return(r)
        ELSE IF ~hasEntry \/ state[y + 1][x + 1] \notin {1, 0, -1}
             THEN Throw("unexpected state entry", 0)
        ELSE IF ~hasRow THEN Throw("TypeError", 0)
        ELSE IF state[y + 1][x + 1] = 1
             THEN IF ~hasCell THEN Throw("TypeError", 0)
                  ELSE FromVecScan(d, state, k + 1,
                                   BitOr(r, Shl(1, d.lut[y + 1][x + 1])))
        ELSE IF state[y + 1][x + 1] = 0
             THEN IF hasCell /\ d.lut[y + 1][x + 1] = -1
                  THEN Throw("state does not match the game field", 0)
                  ELSE FromVecScan(d, state, k + 1, r)
        ELSE IF ~hasCell \/ d.lut[y + 1][x + 1] # -1
             THEN Throw("state does not match the game field", 0)
             ELSE FromVecScan(d, state, k + 1, r)

from_vec(d, state) ==
    IF Len(state) = 0 THEN Return(EMPTY_STATE)
    ELSE FromVecScan(d, state, 0, EMPTY_STATE)

(***************************************************************************)
(* Description: the symmetry transformations                               *)
(***************************************************************************)
Reverse(seq) == [i \in 1..Len(seq) |-> seq[Len(seq) + 1 - i]]

vertical_flip(lut) == Reverse(lut)

horizontal_flip(lut) == [y \in 1..Len(lut) |-> Reverse(lut[y])]

\* the in-place swap of r[y][x] and r[x][y] for x <= y; the constructor
\* calls it on square tables only
transpose(lut) ==
    [y \in 1..Len(lut) |-> [x \in 1..Len(lut[1]) |-> lut[x][y]]]

have_same_shape(in1, in2) ==
    /\ Len(in1) = Len(in2)
    /\ Len(in1[1]) = Len(in2[1])
    /\ \A y \in 1..Len(in1) : \A x \in 1..Len(in2[1]) :
          ~((in1[y][x] = -1 \/ in2[y][x] = -1) /\ in1[y][x] # in2[y][x])

\* a faulty list of candidates, which leaves out the composition of the
\* two flips
CandidatesWithoutRotation(lut) ==
    <<"vertical_flip", "horizontal_flip">>
    \o (IF Len(lut) = Len(lut[1])
        THEN <<"transpose", "vertical_flip(transpose)",
               "horizontal_flip(transpose)",
               "horizontal_flip(vertical_flip(transpose))">>
        ELSE <<>>)

\* the functions handed to add_transformation, in the order of the calls
Candidates(lut) ==
    <<"vertical_flip", "horizontal_flip", "horizontal_flip(vertical_flip)">>
    \o (IF Len(lut) = Len(lut[1])
        THEN <<"transpose", "vertical_flip(transpose)",
               "horizontal_flip(transpose)",
               "horizontal_flip(vertical_flip(transpose))">>
        ELSE <<>>)

ApplyCandidate(func, lut) ==
    CASE func = "vertical_flip" -> vertical_flip(lut)
      [] func = "horizontal_flip" -> horizontal_flip(lut)
      [] func = "horizontal_flip(vertical_flip)" ->
            horizontal_flip(vertical_flip(lut))
      [] func = "transpose" -> transpose(lut)
      [] func = "vertical_flip(transpose)" -> vertical_flip(transpose(lut))
      [] func = "horizontal_flip(transpose)" ->
            horizontal_flip(transpose(lut))
      [] func = "horizontal_flip(vertical_flip(transpose))" ->
            horizontal_flip(vertical_flip(transpose(lut)))

SeqToSet(seq) == {seq[i] : i \in 1..Len(seq)}

\* the test of add_transformation: d carries lut, pegs and move_mask
PreservesMoves(d, func) ==
    \A i \in 1..Len(d.move_mask) :
        LET v == to_vec(d, d.move_mask[i])
        IN  \/ v.error # ""       \* to_vec threw: not in movemask_as_vec
            \/ LET r == from_vec(d, ApplyCandidate(func, v.value))
               IN  r.error = "" /\ r.value \in SeqToSet(d.move_mask)


\* a faulty test, which accepts every symmetry of the layout
AcceptedByShape(d, func) == have_same_shape(d.lut, ApplyCandidate(func, d.lut))

Accepted(d, func) ==
    /\ have_same_shape(d.lut, ApplyCandidate(func, d.lut))
    /\ PreservesMoves(d, func)

RECURSIVE AcceptedFrom(_, _, _)
AcceptedFrom(d, funcs, k) ==
    IF k > Len(funcs) THEN <<>>
    ELSE (IF Accepted(d, funcs[k])
          THEN << ApplyCandidate(funcs[k], d.lut) >> ELSE <<>>)
         \o AcceptedFrom(d, funcs, k + 1)

\* the entries of a transformed table that are not -1, in reading order
RECURSIVE FieldFrom(_, _)
FieldFrom(trans, k) ==
    LET w == Len(trans[1])
        e == trans[(k \div w) + 1][(k % w) + 1]
    IN  IF k >= Len(trans) * w THEN <<>>
        ELSE (IF e # -1 THEN <<e>> ELSE <<>>) \o FieldFrom(trans, k + 1)

\* the loop for (i = field.length - 1; i >= 0; --i) filling the Map output;
\* the Map is a function from the shift to the mask
RECURSIVE ShiftGroups(_, _, _)
ShiftGroups(field, i, output) ==
    IF i < 0 THEN output
    ELSE LET e == field[(Len(field) - 1 - i) + 1]
             diff == e - i
             mask == IF diff \in DOMAIN output
                     THEN BitOr(Shl(1, i), output[diff])
                     ELSE Shl(1, i)
         IN  ShiftGroups(field, i - 1,
                 [s \in (DOMAIN output) \cup {diff} |->
                     IF s = diff THEN mask ELSE output[s]])

EmptyMap == [s \in {} |-> 0]

CompileTransformation(trans) ==
    LET field == FieldFrom(trans, 0)
    IN  ShiftGroups(field, Len(field) - 1, EmptyMap)

(***************************************************************************)
(* Description: the constructor                                            *)
(***************************************************************************)
Failed(message) ==
    [error |-> message, name |-> "", layout |-> <<>>, directions |-> <<>>,
     pegs |-> 0, lut |-> <<>>, move_mask |-> <<>>, check_mask1 |-> <<>>,
     check_mask2 |-> <<>>, transformations |-> <<>>]


\* a faulty constructor, which counts the pegs before it looks at the
\* characters
DescriptionCountingFirst(name, layout, directions) ==
    IF name = "" THEN Failed("name cannot be empty")
    ELSE IF Len(directions) = 0
         THEN Failed("no move directions were provided")
    ELSE IF Len(layout) = 0 THEN Failed("layout cannot be empty")
    ELSE IF CountPegs(layout) < 3
         THEN Failed("peg solitaire requires at least 3 pegs")
    ELSE IF CountPegs(layout) > 63
         THEN Failed("implementation supports only 63 bit")
    ELSE IF \E k \in 1..Len(layout) : layout[k] \notin {".", "o", "\n"}
         THEN Failed("layout contains the invalid character")
    ELSE IF ReduceLengths(Split(layout), 2, Len(Split(layout)[1])) = -1
         THEN Failed("not every layout line has the same length")
    ELSE
    LET pegs  == CountPegs(layout)
        lut   == BuildLut(Split(layout), pegs)
        moves == MoveTable(lut, directions)
        mm    == [i \in 1..Len(moves) |-> moves[i].move_mask]
        part  == [pegs |-> pegs, lut |-> lut, move_mask |-> mm]
        luts  == AcceptedFrom(part, Candidates(lut), 1)
    IN  IF Len(moves) = 0 THEN Failed("No moves are possible")
        ELSE [error |-> "", name |-> name, layout |-> layout,
              directions |-> directions, pegs |-> pegs, lut |-> lut,
              move_mask   |-> mm,
              check_mask1 |-> [i \in 1..Len(moves) |-> moves[i].check_mask1],
              check_mask2 |-> [i \in 1..Len(moves) |-> moves[i].check_mask2],
              transformations |->
                  [t \in 1..Len(luts) |-> CompileTransformation(luts[t])]]

Description(name, layout, directions) ==
    IF name = "" THEN Failed("name cannot be empty")
    ELSE IF Len(directions) = 0
         THEN Failed("no move directions were provided")
    ELSE IF Len(layout) = 0 THEN Failed("layout cannot be empty")
    ELSE IF \E k \in 1..Len(layout) : layout[k] \notin {".", "o", "\n"}
         THEN Failed("layout contains the invalid character")
    ELSE IF CountPegs(layout) < 3
         THEN Failed("peg solitaire requires at least 3 pegs")
    ELSE IF CountPegs(layout) > 63
         THEN Failed("implementation supports only 63 bit")
    ELSE IF ReduceLengths(Split(layout), 2, Len(Split(layout)[1])) = -1
         THEN Failed("not every layout line has the same length")
    ELSE
    LET pegs  == CountPegs(layout)
        lut   == BuildLut(Split(layout), pegs)
        moves == MoveTable(lut, directions)
        mm    == [i \in 1..Len(moves) |-> moves[i].move_mask]
        part  == [pegs |-> pegs, lut |-> lut, move_mask |-> mm]
        luts  == AcceptedFrom(part, Candidates(lut), 1)
    IN  IF Len(moves) = 0 THEN Failed("No moves are possible")
        ELSE [error |-> "", name |-> name, layout |-> layout,
              directions |-> directions, pegs |-> pegs, lut |-> lut,
              move_mask   |-> mm,
              check_mask1 |-> [i \in 1..Len(moves) |-> moves[i].check_mask1],
              check_mask2 |-> [i \in 1..Len(moves) |-> moves[i].check_mask2],
              transformations |->
                  [t \in 1..Len(luts) |-> CompileTransformation(luts[t])]]

(***************************************************************************)
(* normalize: the function generate_js_code_normalize writes               *)
(***************************************************************************)

\* a faulty operand, which shifts every group to the left
ShiftedGroupToTheLeft(state, shift, pos) ==
    IF shift = 0 THEN BitAnd(state, pos)
    ELSE IF shift > 0 THEN Shl(BitAnd(state, pos), shift)
    ELSE Shl(BitAnd(state, pos), 0 - shift)

\* (state & pos) << shift, or >> -shift, or unshifted: one operand of the |
ShiftedGroup(state, shift, pos) ==
    IF shift = 0 THEN BitAnd(state, pos)
    ELSE IF shift > 0 THEN Shl(BitAnd(state, pos), shift)
    ELSE Shr(BitAnd(state, pos), 0 - shift)

RECURSIVE OrGroups(_, _, _)
OrGroups(trans, state, shifts) ==
    IF shifts = {} THEN 0
    ELSE LET shift == CHOOSE s \in shifts : TRUE
         IN  BitOr(ShiftedGroup(state, shift, trans[shift]),
                   OrGroups(trans, state, shifts \ {shift}))

\* the image of state under one compiled transformation
ApplyTransformation(trans, state) == OrGroups(trans, state, DOMAIN trans)

\* a faulty reduce, which keeps the larger value
RECURSIVE ReduceMax(_, _, _, _)
ReduceMax(d, state, k, accumulator) ==
    IF k > Len(d.transformations) THEN accumulator
    ELSE ReduceMax(d, state, k + 1,
                   LET value == ApplyTransformation(d.transformations[k],
                                                    state)
                   IN  IF accumulator > value THEN accumulator ELSE value)

\* [state, T1(state), ...].reduce((a, v) => a < v ? a : v)
RECURSIVE ReduceMin(_, _, _, _)
ReduceMin(d, state, k, accumulator) ==
    IF k > Len(d.transformations) THEN accumulator
    ELSE ReduceMin(d, state, k + 1,
                   LET value == ApplyTransformation(d.transformations[k],
                                                    state)
                   IN  IF accumulator < value THEN accumulator ELSE value)

normalize(d, state) == ReduceMin(d, state, 1, state)

(***************************************************************************)
(* Bounds of the model                                                     *)
(***************************************************************************)
\* insert and fast_insert draw their values from 0..MaxVal
MaxVal == 25

\* a call draws its value among the Window smallest values already passed
\* and the Window smallest values not passed yet
Window == 2

\* the specification of all calls draws its values from 0..SetMaxVal and
\* adds elements while length is below SetMaxLength
SetMaxVal == 3
SetMaxLength == 6

(***************************************************************************)
(* The set specifications: calls on one BoardSet                           *)
(***************************************************************************)
NoDescription == Failed("")

\* the variables of the other specifications, which these leave alone
IdleSolve ==
    /\ start = 0 /\ pc = "idle" /\ solution = <<>>
    /\ current = BoardSetNew(0) /\ next = BoardSetNew(0)
    /\ fieldIdx = 0 /\ moveIdx = 0

\* the non-zero values a call may pass: one of the Window smallest values
\* already passed (a repeat), or one of the Window smallest values of
\* 1..MaxVal not passed yet
RECURSIVE Smallest(_, _)
Smallest(S, n) ==
    IF n = 0 \/ S = {} THEN {}
    ELSE LET m == CHOOSE x \in S : \A z \in S : x <= z
         IN  {m} \cup Smallest(S \ {m}, n - 1)

Choices ==
    Smallest(inserted, Window) \cup Smallest((1..MaxVal) \ inserted, Window)

InitSet ==
    /\ set = BoardSetNew(0)
    /\ inserted = {}
    /\ op = [name |-> "new", repeat |-> FALSE]
    /\ desc = NoDescription
    /\ IdleSolve

Insert(v) ==
    /\ set' = insert(set, v)
    /\ inserted' = inserted \cup ({v} \ {EMPTY_STATE})
    /\ op' = [name |-> "insert", repeat |-> v \in inserted]
    /\ UNCHANGED <<desc, start, pc, solution, current, next, fieldIdx, moveIdx>>

\* fast_insert is called with room reserved for one more element
FastInsert(v) ==
    /\ size_fits_into_capacity(set.length + 1, Len(set.data))
    /\ set' = fast_insert(set, v)
    /\ inserted' = inserted \cup ({v} \ {EMPTY_STATE})
    /\ op' = [name |-> "fast_insert", repeat |-> v \in inserted]
    /\ UNCHANGED <<desc, start, pc, solution, current, next, fieldIdx, moveIdx>>

\* fast_insert_all is called with room reserved for all of other
FastInsertAll(other) ==
    /\ size_fits_into_capacity(set.length + Len(other), Len(set.data))
    /\ set' = fast_insert_all(set, other)
    /\ inserted' = inserted \cup (SeqToSet(other) \ {EMPTY_STATE})
    /\ op' = [name |-> "fast_insert_all", repeat |-> FALSE]
    /\ UNCHANGED <<desc, start, pc, solution, current, next, fieldIdx, moveIdx>>

Reserve(n) ==
    /\ set' = reserve(set, n)
    /\ op' = [name |-> "reserve", repeat |-> FALSE]
    /\ UNCHANGED <<inserted, desc, start, pc, solution, current, next,
                   fieldIdx, moveIdx>>

Clear ==
    /\ set' = clear(set)
    /\ inserted' = {}
    /\ op' = [name |-> "clear", repeat |-> FALSE]
    /\ UNCHANGED <<desc, start, pc, solution, current, next, fieldIdx, moveIdx>>

\* insert calls with non-zero values only
NextInsert == \E v \in Choices : Insert(v)

SpecInsert == InitSet /\ [][NextInsert]_vars


\* insert and reserve calls: insert passes 0, the smallest value already
\* passed or the smallest value of 1..MaxVal not passed yet, while length
\* is below MaxVal
GrowChoices ==
    {EMPTY_STATE} \cup Smallest(inserted, 1)
        \cup Smallest((1..MaxVal) \ inserted, 1)

NextGrow ==
    \/ \E v \in GrowChoices : set.length < MaxVal /\ Insert(v)
    \/ \E n \in {0, 1, INITIAL_SIZE} : Reserve(n)

SpecGrow == InitSet /\ [][NextGrow]_vars

\* every call, with any value of 0..SetMaxVal
NextSet ==
    \/ \E v \in 0..SetMaxVal : set.length < SetMaxLength /\ Insert(v)
    \/ \E v \in 0..SetMaxVal : set.length < SetMaxLength /\ FastInsert(v)
    \/ \E a, b \in 0..SetMaxVal :
          set.length < SetMaxLength /\ FastInsertAll(<<a, b>>)
    \/ \E n \in {0, 1, INITIAL_SIZE} : Reserve(n)
    \/ Clear

SpecSet == InitSet /\ [][NextSet]_vars

(***************************************************************************)
(* The boards of the model                                                 *)
(***************************************************************************)
\* the single-row boards have up to MaxWidth cells
MaxWidth == 5

\* the states handed to the calls go ExtraStates beyond the largest state
ExtraStates == 2

\* every row of 1..MaxWidth cells, each '.' or 'o'
RowLayouts == UNION {[1..w -> {".", "o"}] : w \in 1..MaxWidth}

\* boards of several rows: a column, rectangles, squares with and without
\* blocked cells, and boards whose jumps are diagonal
GridBoards ==
    { [layout |-> <<"o", "\n", "o", "\n", "o", "\n", "o">>,
       directions |-> <<"Vertical">>],
      [layout |-> <<"o", "o", "o", "\n", "o", "o", "o">>,
       directions |-> <<"Horizontal">>],
      [layout |-> <<".", "o", "o", "o", "\n", "o", "o", "o", ".">>,
       directions |-> <<"Horizontal">>],
      [layout |-> <<"o", "o", "o", "\n", "o", ".", ".", "\n", "o", ".", ".">>,
       directions |-> <<"Horizontal", "Vertical">>],
      [layout |-> <<"o", "o", "o", "\n", "o", ".", ".", "\n", "o", ".", ".">>,
       directions |-> <<"Horizontal">>],
      [layout |-> <<"o", ".", "o", "\n", ".", "o", ".", "\n", "o", ".", "o">>,
       directions |-> <<"LeftDiagonal", "RightDiagonal">>],
      [layout |-> <<"o", ".", ".", ".", "o", "\n", ".", "o", ".", "o", ".",
                    "\n", ".", ".", "o", ".", ".">>,
       directions |-> <<"LeftDiagonal", "RightDiagonal">>],
      [layout |-> <<".", "o", ".", "\n", "o", "o", "o", "\n", ".", "o", ".">>,
       directions |-> <<"Horizontal", "Vertical">>],
      [layout |-> <<"o", "o", "o", "\n", "o", "o", "o", "\n", "o", "o", "o">>,
       directions |-> <<"Horizontal", "Vertical">>],
      [layout |-> <<"o", "o", "o", "\n", "o", "o", "o", "\n", "o", "o", "o">>,
       directions |-> <<"Horizontal">>],
      [layout |-> <<"o", "o", "o", "o", "\n", "o", "o", "o", ".", "\n",
                    "o", "o", ".", ".">>,
       directions |-> <<"RightDiagonal", "Horizontal", "Vertical">>] }

BoardInputs ==
    {[layout |-> l, directions |-> <<"Horizontal">>] : l \in RowLayouts}
    \cup GridBoards

\* the Descriptions whose construction returns
Boards ==
    {d \in {Description("test", b.layout, b.directions) : b \in BoardInputs} :
        d.error = ""}

IdleSet ==
    /\ set = BoardSetNew(0)
    /\ inserted = {}

\* the states of the board and ExtraStates states past them
States(d) == 0..(Shl(1, d.pegs) - 1 + ExtraStates)

(***************************************************************************)
(* The call specification: calls on one compiled Description               *)
(***************************************************************************)
Alphabet == {"x", ".", " ", "\n", "\t", "b"}

\* the texts that show some state of the layout, built character by
\* character from the layout's first k characters
RECURSIVE BoardTexts(_, _)
BoardTexts(layout, k) ==
    IF k = 0 THEN {<<>>}
    ELSE {Append(t, c) :
            t \in BoardTexts(layout, k - 1),
            c \in CASE layout[k] = "o"  -> {"x", "."}
                    [] layout[k] = "."  -> {" "}
                    [] layout[k] = "\n" -> {"\n"}}

\* a board text, or one with a character replaced, dropped or added
Texts(d) ==
    LET base == BoardTexts(d.layout, Len(d.layout))
    IN  base
        \cup {[t EXCEPT ![i] = c] : t \in base, i \in 1..Len(d.layout),
                                    c \in Alphabet}
        \cup {SubSeq(t, 1, Len(t) - 1) : t \in base}
        \cup {Append(t, c) : t \in base, c \in Alphabet}

\* the arrays that show some state of the table: -1 on a blocked cell, 0 or
\* 1 on the others
RECURSIVE BoardRows(_, _)
BoardRows(row, k) ==
    IF k = 0 THEN {<<>>}
    ELSE {Append(r, e) :
            r \in BoardRows(row, k - 1),
            e \in IF row[k] = -1 THEN {-1} ELSE {0, 1}}

RECURSIVE BoardArrays(_, _)
BoardArrays(lut, k) ==
    IF k = 0 THEN {<<>>}
    ELSE {Append(a, r) :
            a \in BoardArrays(lut, k - 1),
            r \in BoardRows(lut[k], Len(lut[k]))}

\* a board array, or one with an entry replaced, or with a row or a column
\* dropped or added
Arrays(d) ==
    LET base == BoardArrays(d.lut, Len(d.lut))
        h == Len(d.lut)
        w == Len(d.lut[1])
    IN  base
        \cup {[a EXCEPT ![y][x] = e] :
                a \in base, y \in 1..h, x \in 1..w, e \in {-1, 0, 1, 2}}
        \cup {SubSeq(a, 1, h - 1) : a \in base}
        \cup {Append(a, [x \in 1..w |-> e]) : a \in base, e \in {-1, 0, 1}}
        \cup {[y \in 1..h |-> SubSeq(a[y], 1, w - 1)] : a \in base}
        \cup {[y \in 1..h |-> Append(a[y], e)] : a \in base, e \in {-1, 0, 1}}

InitCalls ==
    /\ desc \in Boards
    /\ op = [name |-> "new", arg |-> 0, result |-> Return(0)]
    /\ IdleSet
    /\ IdleSolve

Called(name, arg, result) ==
    /\ op' = [name |-> name, arg |-> arg, result |-> result]
    /\ UNCHANGED <<set, inserted, desc, start, pc, solution, current, next,
                   fieldIdx, moveIdx>>

CallToString(state) == Called("to_string", state, to_string(desc, state))

CallFromString(text) == Called("from_string", text, from_string(desc, text))

CallToVec(state) == Called("to_vec", state, to_vec(desc, state))

CallFromVec(array) == Called("from_vec", array, from_vec(desc, array))

\* desc.from_string(desc.to_string(state))
CallFromStringOfToString(state) ==
    LET text == to_string(desc, state)
    IN  /\ text.error = ""
        /\ Called("from_string(to_string)", state,
                  from_string(desc, text.value))

\* desc.to_string(desc.from_string(text))
CallToStringOfFromString(text) ==
    LET state == from_string(desc, text)
    IN  /\ state.error = ""
        /\ Called("to_string(from_string)", text,
                  to_string(desc, state.value))

\* desc.from_vec(desc.to_vec(state))
CallFromVecOfToVec(state) ==
    LET array == to_vec(desc, state)
    IN  /\ array.error = ""
        /\ Called("from_vec(to_vec)", state, from_vec(desc, array.value))

\* the function solve builds from generate_js_code_normalize
CallNormalize(state) ==
    Called("normalize", state, Return(normalize(desc, state)))

\* the methods of a Description assign none of its fields, so a call sees
\* the Description as constructed whatever was called before: the model
\* follows one call from the construction
NextCalls ==
    /\ op.name = "new"
    /\ \/ \E state \in States(desc) : CallToString(state)
       \/ \E text \in Texts(desc) : CallFromString(text)
       \/ \E state \in States(desc) : CallToVec(state)
       \/ \E array \in Arrays(desc) : CallFromVec(array)
       \/ \E state \in States(desc) : CallFromStringOfToString(state)
       \/ \E text \in Texts(desc) : CallToStringOfFromString(text)
       \/ \E state \in States(desc) : CallFromVecOfToVec(state)
       \/ \E state \in States(desc) : CallNormalize(state)

SpecCalls == InitCalls /\ [][NextCalls]_vars

(***************************************************************************)
(* The solve specification: one run of solve(start)                        *)
(***************************************************************************)
\* a faulty test, which forgets the jump from the far end
LegalForwardOnly(d, field, i) ==
    BitAnd(field, d.move_mask[i]) = d.check_mask1[i]

\* descriptor i (from 1) can jump in field: v === check_mask1[i] or
\* v === check_mask2[i] for v = field & move_mask[i]
Legal(d, field, i) ==
    LET v == BitAnd(field, d.move_mask[i])
    IN  v = d.check_mask1[i] \/ v = d.check_mask2[i]


\* a faulty jump, which leaves the two pegs in place
JumpKeepingPegs(d, field, i) == BitOr(field, d.move_mask[i])

\* field ^ move_mask[i]
Jump(d, field, i) == BitXor(field, d.move_mask[i])

InitSolve ==
    /\ desc \in Boards
    /\ start \in States(desc)
    /\ pc = "start"
    /\ solution = <<>>
    /\ current = BoardSetNew(0)
    /\ next = BoardSetNew(0)
    /\ fieldIdx = 0
    /\ moveIdx = 0
    /\ op = [name |-> "new", arg |-> 0, result |-> Return(0)]
    /\ IdleSet

\* let current = new BoardSet; current.insert(normalize(start))
SolveBegin ==
    /\ pc = "start"
    /\ current' = insert(BoardSetNew(0), normalize(desc, start))
    /\ pc' = "while"
    /\ UNCHANGED <<set, inserted, op, desc, start, solution, next, fieldIdx,
                   moveIdx>>

\* while (current.length != 0) { let next = new BoardSet
SolveEnterLevel ==
    /\ pc = "while"
    /\ current.length # 0
    /\ next' = BoardSetNew(0)
    /\ fieldIdx' = 0
    /\ pc' = "for"
    /\ UNCHANGED <<set, inserted, op, desc, start, solution, current, moveIdx>>

\* the slots of current.data from fieldIdx on that hold a field
FieldsLeft == {i \in fieldIdx..(Len(current.data) - 1) :
                  current.data[i + 1] # EMPTY_STATE}

\* for (const field of current.data): the empty slots are skipped, and
\* next.reserve(size) is called for the first field found
SolveField ==
    /\ pc = "for"
    /\ FieldsLeft # {}
    /\ fieldIdx' = CHOOSE i \in FieldsLeft : \A j \in FieldsLeft : i <= j
    /\ next' = reserve(next, Len(desc.move_mask))
    /\ moveIdx' = 0
    /\ pc' = "move"
    /\ UNCHANGED <<set, inserted, op, desc, start, solution, current>>


\* a faulty body, which makes the jump without the test
SolveMoveWithoutTest ==
    /\ pc = "move"
    /\ moveIdx < Len(desc.move_mask)
    /\ LET field == current.data[fieldIdx + 1]
       IN  next' = fast_insert(next,
                       normalize(desc, Jump(desc, field, moveIdx + 1)))
    /\ moveIdx' = moveIdx + 1
    /\ UNCHANGED <<set, inserted, op, desc, start, pc, solution, current,
                   fieldIdx>>

\* the body of for (let i = 0; i < size; ++i)
SolveMove ==
    /\ pc = "move"
    /\ moveIdx < Len(desc.move_mask)
    /\ LET field == current.data[fieldIdx + 1]
       IN  next' = IF Legal(desc, field, moveIdx + 1)
                   THEN fast_insert(next,
                            normalize(desc, Jump(desc, field, moveIdx + 1)))
                   ELSE next
    /\ moveIdx' = moveIdx + 1
    /\ UNCHANGED <<set, inserted, op, desc, start, pc, solution, current,
                   fieldIdx>>

\* i reaches size: on to the next slot of current.data
SolveEndMoves ==
    /\ pc = "move"
    /\ moveIdx = Len(desc.move_mask)
    /\ fieldIdx' = fieldIdx + 1
    /\ pc' = "for"
    /\ UNCHANGED <<set, inserted, op, desc, start, solution, current, next,
                   moveIdx>>

\* no field is left: solution.push(current); current = next
SolveEndLevel ==
    /\ pc = "for"
    /\ FieldsLeft = {}
    /\ solution' = Append(solution, current)
    /\ current' = next
    /\ pc' = "while"
    /\ UNCHANGED <<set, inserted, op, desc, start, next, fieldIdx, moveIdx>>


\* a faulty return, which pushes the empty frontier before it returns
SolveReturnPushingEmpty ==
    /\ pc = "while"
    /\ current.length = 0
    /\ solution' = Append(solution, current)
    /\ pc' = "done"
    /\ UNCHANGED <<set, inserted, op, desc, start, current, next, fieldIdx,
                   moveIdx>>

\* current.length is 0: return solution
SolveReturn ==
    /\ pc = "while"
    /\ current.length = 0
    /\ pc' = "done"
    /\ UNCHANGED <<set, inserted, op, desc, start, solution, current, next,
                   fieldIdx, moveIdx>>

NextSolve ==
    \/ SolveBegin
    \/ SolveEnterLevel
    \/ SolveField
    \/ SolveMove
    \/ SolveEndMoves
    \/ SolveEndLevel
    \/ SolveReturn

SpecSolve == InitSolve /\ [][NextSolve]_vars

(***************************************************************************)
(* The construction specification: one call of new Description             *)
(***************************************************************************)
\* the layouts handed to the constructor have up to MaxLayoutLength
\* characters; the boards of several rows and a row of 64 pegs, alone, with
\* a shorter second row and with a character that is not allowed, come on
\* top
MaxLayoutLength == 5

LayoutAlphabet == {".", "o", "\n", "x"}

ShortLayouts == UNION {[1..n -> LayoutAlphabet] : n \in 0..MaxLayoutLength}

NewLayouts ==
    ShortLayouts \cup {b.layout : b \in GridBoards}
        \cup {[k \in 1..(63 + 1) |-> "o"],
              [k \in 1..(63 + 1) |-> "o"] \o <<"\n", "o">>,
              [k \in 1..(63 + 1) |-> "o"] \o <<"x">>}

NewDirections ==
    {<<>>, <<"Horizontal">>, <<"Vertical">>, <<"Horizontal", "Vertical">>,
     <<"LeftDiagonal">>, <<"RightDiagonal">>,
     <<"LeftDiagonal", "RightDiagonal">>}

NewNames == {"", "test"}



\* a board of twelve pegs, on which the frontiers of solve outgrow the
\* first capacity, and its starts: the full board less one peg
LargeBoard ==
    Description("test",
                <<"o", "o", "o", "o", "\n", "o", "o", "o", "o", "\n",
                  "o", "o", "o", "o">>,
                <<"Horizontal", "Vertical">>)

LargeStarts ==
    {Shl(1, LargeBoard.pegs) - 1 - Shl(1, b) : b \in 0..(LargeBoard.pegs - 1)}

InitSolveWide ==
    /\ \/ desc \in Boards /\ start \in States(desc)
       \/ desc = LargeBoard /\ start \in LargeStarts
    /\ pc = "start"
    /\ solution = <<>>
    /\ current = BoardSetNew(0)
    /\ next = BoardSetNew(0)
    /\ fieldIdx = 0
    /\ moveIdx = 0
    /\ op = [name |-> "new", arg |-> 0, result |-> Return(0)]
    /\ IdleSet

\* solve on the boards of the model and on the large board
SpecSolveWide == InitSolveWide /\ [][NextSolve]_vars

InitNew ==
    /\ desc = NoDescription
    /\ op = [name |-> "none", arg |-> 0, result |-> Return(0)]
    /\ IdleSet
    /\ IdleSolve

\* new Description(name, layout, directions): desc is the object, or the
\* record of the error thrown
Construct(name, layout, directions) ==
    /\ desc' = Description(name, layout, directions)
    /\ op' = [name |-> "new",
              arg |-> [name |-> name, layout |-> layout,
                       directions |-> directions],
              result |-> IF desc'.error = "" THEN Return(desc'.pegs)
                         ELSE Throw(desc'.error, 0)]
    /\ UNCHANGED <<set, inserted, start, pc, solution, current, next,
                   fieldIdx, moveIdx>>

\* one construction is followed from the start
NextNew ==
    /\ op.name = "none"
    /\ \E name \in NewNames, layout \in NewLayouts,
          directions \in NewDirections :
            Construct(name, layout, directions)

SpecNew == InitNew /\ [][NextNew]_vars

(***************************************************************************)
(* Properties                                                              *)
(***************************************************************************)
InRange(d, state) == 0 <= state /\ state < Shl(1, d.pegs)

\* the jump of descriptor i from f in the un-reduced game
UnreducedLegal(d, f, i) ==
    \/ BitAnd(f, d.move_mask[i]) = d.check_mask1[i]
    \/ BitAnd(f, d.move_mask[i]) = d.check_mask2[i]

UnreducedSuccessors(d, F) ==
    UNION {{BitXor(f, d.move_mask[i]) :
                i \in {j \in 1..Len(d.move_mask) : UnreducedLegal(d, f, j)}} :
            f \in F}

\* the states exactly k legal jumps away from s in the un-reduced game
RECURSIVE ReachExact(_, _, _)
ReachExact(d, s, k) ==
    IF k = 0 THEN {s} ELSE UnreducedSuccessors(d, ReachExact(d, s, k - 1))

\* the non-zero values of level k of the returned sequence, none past its end
LevelStored(k) ==
    IF k < Len(solution) THEN Stored(solution[k + 1]) ELSE {}

\* C1: when solve(start) returns for 0 < start < 2^pegs, the non-zero values
\* of its level k are exactly the normalized states that exactly k legal
\* jumps of the un-reduced game reach from start, for every k
C1_LevelsAreExactReach ==
    (pc = "done" /\ 0 < start /\ InRange(desc, start)) =>
        \A k \in 0..desc.pegs :
            LevelStored(k) =
                {normalize(desc, t) : t \in ReachExact(desc, start, k)}

\* a run that returned four levels or more on a board with symmetries, where
\* some level stores fewer values than the un-reduced game reaches
C1_Witness ==
    /\ pc = "done" /\ 0 < start /\ InRange(desc, start)
    /\ Len(solution) >= 4
    /\ Len(desc.transformations) > 0
    /\ \E k \in 1..3 :
          /\ Cardinality(LevelStored(k)) > 1
          /\ Cardinality(LevelStored(k))
                < Cardinality(ReachExact(desc, start, k))

\* C2: normalize gives a state in range and its image under any compiled
\* transformation the same value
C2_NormalizeConstantOnOrbits ==
    (op.name = "normalize" /\ InRange(desc, op.arg)) =>
        \A t \in 1..Len(desc.transformations) :
            normalize(desc,
                      ApplyTransformation(desc.transformations[t], op.arg))
                = op.result.value

\* normalize was called on a state that two transformations move to two
\* other states, and returned another state than its argument
C2_Witness ==
    /\ op.name = "normalize" /\ InRange(desc, op.arg)
    /\ op.result.value # op.arg
    /\ \E t, u \in 1..Len(desc.transformations) :
          LET a == ApplyTransformation(desc.transformations[t], op.arg)
              b == ApplyTransformation(desc.transformations[u], op.arg)
          IN  a # op.arg /\ b # op.arg /\ a # b

\* the state itself and its images under the compiled transformations
Images(d, state) ==
    {state} \cup {ApplyTransformation(d.transformations[t], state) :
                    t \in 1..Len(d.transformations)}

\* C3: for a state in range, normalize returns the least of the state and
\* its images, which is at most the state, and normalize maps it to itself
C3_NormalizeIsIdempotentMinimum ==
    (op.name = "normalize" /\ InRange(desc, op.arg)) =>
        /\ op.result.value \in Images(desc, op.arg)
        /\ \A v \in Images(desc, op.arg) : op.result.value <= v
        /\ op.result.value <= op.arg
        /\ normalize(desc, op.result.value) = op.result.value

\* normalize returned a smaller state than its argument on a board with
\* several transformations
C3_Witness ==
    /\ op.name = "normalize" /\ InRange(desc, op.arg)
    /\ op.result.value < op.arg
    /\ Len(desc.transformations) > 2

\* what holds of the set after insert calls with non-zero values
InsertedAreStored ==
    /\ set.length = Cardinality(inserted)
    /\ \A v \in inserted : Cardinality(SlotsOf(set, v)) = 1
    /\ \A v \in 1..(MaxVal + 1) : contains(set, v) <=> v \in inserted

\* C4 as stated: after insert calls with non-zero values, length is the
\* number of distinct values, each holds one slot, contains tells them from
\* the others, and an insert of a value already present changes nothing
C4_RepeatedInsertChangesNothing ==
    /\ []InsertedAreStored
    /\ [][(op'.name = "insert" /\ op'.repeat) => set' = set]_vars

\* C4: after insert calls with non-zero values, length is the number of
\* distinct values, each holds one slot, contains tells them from the
\* others; an insert of a value already present keeps length and the stored
\* values, and leaves the backing array alone unless length + 1 does not
\* fit the capacity, when it rebuilds the array at twice the capacity
C4_RepeatedInsertKeepsValues ==
    /\ []InsertedAreStored
    /\ [][(op'.name = "insert" /\ op'.repeat) =>
                /\ set'.length = set.length
                /\ Stored(set') = Stored(set)
                /\ IF size_fits_into_capacity(set.length + 1, Len(set.data))
                   THEN set' = set
                   ELSE Len(set'.data) = 2 * Len(set.data)]_vars

\* an insert of a value already present has rebuilt the table
C4_Witness ==
    /\ op.name = "insert" /\ op.repeat
    /\ Len(set.data) = 2 * INITIAL_SIZE
    /\ ~size_fits_into_capacity(set.length + 1, INITIAL_SIZE)
    /\ size_fits_into_capacity(set.length, INITIAL_SIZE)

\* C5: after any calls with any values, length is the number of slots of
\* the backing array that hold a non-zero value
C5_LengthCountsNonEmptySlots ==
    set.length = Cardinality(NonEmptySlots(set))

\* C6: solve(start) with start out of range fails before it searches: it
\* pushes no level and does not return
C6_SolveRejectsOutOfRange ==
    ~InRange(desc, start) => (solution = <<>> /\ pc # "done")

\* C7: from_string undoes to_string and from_vec undoes to_vec on the
\* states in range, and to_string undoes from_string on the texts
\* from_string accepts
C7_CodecsRoundTrip ==
    /\ (op.name = "from_string(to_string)" /\ InRange(desc, op.arg)) =>
            op.result = Return(op.arg)
    /\ (op.name = "from_vec(to_vec)" /\ InRange(desc, op.arg)) =>
            op.result = Return(op.arg)
    /\ op.name = "to_string(from_string)" => op.result = Return(op.arg)

\* a state with pegs and holes went through to_string and from_string on a
\* board of several rows with blocked cells
C7_Witness ==
    /\ op.name = "from_string(to_string)"
    /\ op.arg > 1 /\ op.arg + 1 < Shl(1, desc.pegs)
    /\ Len(desc.lut) > 1
    /\ \E k \in 1..Len(desc.layout) : desc.layout[k] = "."

\* the cells both the table and the array have where one is blocked and the
\* other says 0 or 1, or the other way round
Mismatches(lut, array) ==
    {p \in (1..Len(lut)) \X (1..Len(lut[1])) :
        /\ p[1] <= Len(array) /\ p[2] <= Len(array[p[1]])
        /\ \/ lut[p[1]][p[2]] = -1 /\ array[p[1]][p[2]] \in {0, 1}
           \/ lut[p[1]][p[2]] # -1 /\ array[p[1]][p[2]] = -1}

\* C8: from_vec fails on an array with a 0 or a 1 on a blocked cell or a -1
\* on an occupiable cell
C8_FromVecRejectsMismatch ==
    (op.name = "from_vec" /\ Mismatches(desc.lut, op.arg) # {}) =>
        op.result.error # ""

\* the array has other rows than the table, or a row of another length
ShapeDiffers(lut, array) ==
    \/ Len(array) # Len(lut)
    \/ \E y \in 1..Len(array) : Len(array[y]) # Len(lut[1])

\* C9: from_vec fails on an array whose shape is not the layout's
C9_FromVecRejectsWrongShape ==
    (op.name = "from_vec" /\ ShapeDiffers(desc.lut, op.arg)) =>
        op.result.error # ""

\* text has the layout's length, a space under each '.', a line break under
\* each line break and 'x' or '.' under each 'o'
TextFitsLayout(layout, text) ==
    /\ Len(text) = Len(layout)
    /\ \A i \in 1..Len(layout) :
          /\ layout[i] = "."  => text[i] = " "
          /\ layout[i] = "\n" => text[i] = "\n"
          /\ layout[i] = "o"  => text[i] \in {"x", "."}

\* C10: from_string returns a state exactly for the texts that fit the
\* layout, and fails on the others
C10_FromStringAcceptsFittingTexts ==
    op.name = "from_string" =>
        (op.result.error = "" <=> TextFitsLayout(desc.layout, op.arg))

\* from_string rejected a text of the layout's length for one character
C10_Witness ==
    /\ op.name = "from_string"
    /\ Len(op.arg) = Len(desc.layout)
    /\ op.result.error = "invalid state"
    /\ Cardinality({i \in 1..Len(desc.layout) :
            ~TextFitsLayout(<<desc.layout[i]>>, <<op.arg[i]>>)}) = 1

RowLengths(layout) ==
    LET ends == {0, Len(layout) + 1}
                    \cup {k \in 1..Len(layout) : layout[k] = "\n"}
    IN  {b - a - 1 : <<a, b>> \in
            {p \in ends \X ends :
                p[1] < p[2] /\ ~\E c \in ends : p[1] < c /\ c < p[2]}}

RefWidth(layout) == CHOOSE w \in RowLengths(layout) : TRUE

RefHeight(layout) ==
    Cardinality({k \in 1..Len(layout) : layout[k] = "\n"}) + 1

\* cell (x, y), counted from 0, is on the board and holds an 'o'
RefOccupiable(layout, x, y) ==
    /\ 0 <= x /\ x < RefWidth(layout)
    /\ 0 <= y /\ y < RefHeight(layout)
    /\ layout[y * (RefWidth(layout) + 1) + x + 1] = "o"

\* the midpoint and the destination of a jump from (x, y)
RefNeighbours(dir, x, y) ==
    CASE dir = "Horizontal"    -> << <<x + 1, y>>, <<x + 2, y>> >>
      [] dir = "Vertical"      -> << <<x, y + 1>>, <<x, y + 2>> >>
      [] dir = "LeftDiagonal"  -> << <<x + 1, y + 1>>, <<x + 2, y + 2>> >>
      [] dir = "RightDiagonal" -> << <<x - 1, y + 1>>, <<x - 2, y + 2>> >>

\* the jumps of the reference table: source cell and direction
RefJumps(layout, directions) ==
    {j \in (0..(RefWidth(layout) - 1)) \X (0..(RefHeight(layout) - 1))
            \X {directions[i] : i \in 1..Len(directions)} :
        LET n == RefNeighbours(j[3], j[1], j[2])
        IN  /\ RefOccupiable(layout, j[1], j[2])
            /\ j[3] = "RightDiagonal" => j[1] > 2
            /\ RefOccupiable(layout, n[1][1], n[1][2])
            /\ RefOccupiable(layout, n[2][1], n[2][2])}

PegCharacters(layout) == {k \in 1..Len(layout) : layout[k] = "o"}

\* one of the reasons for which the construction fails
InvalidBoard(layout, directions) ==
    \/ Len(layout) = 0
    \/ \E k \in 1..Len(layout) : layout[k] \notin {".", "o", "\n"}
    \/ Cardinality(RowLengths(layout)) > 1
    \/ Cardinality(PegCharacters(layout)) < 3
    \/ Cardinality(PegCharacters(layout)) > 63
    \/ Len(directions) = 0
    \/ RefJumps(layout, directions) = {}

\* C12: new Description fails on an empty layout, a character other than
\* '.', 'o' and line break, rows of unequal length, fewer than 3 or more
\* than 63 'o', an empty direction list, or no derivable jump; with a
\* non-empty name and none of these it returns, and pegs is the number of
\* 'o' characters
C12_ConstructionFailsOnInvalidBoards ==
    op.name = "new" =>
        LET a == op.arg
        IN  /\ InvalidBoard(a.layout, a.directions) => op.result.error # ""
            /\ (a.name # "" /\ ~InvalidBoard(a.layout, a.directions)) =>
                    /\ op.result.error = ""
                    /\ desc.pegs = Cardinality(PegCharacters(a.layout))

\* a board of several rows with blocked cells was constructed
C12_Witness ==
    /\ op.name = "new" /\ op.result.error = ""
    /\ Len(desc.lut) > 1
    /\ \E k \in 1..Len(desc.layout) : desc.layout[k] = "."
    /\ desc.pegs > 3

\* C13: after every insert call, in any sequence of insert and reserve
\* calls, 4 * length < 3 * capacity, and the ratio used() reports is below
\* three quarters
C13_InsertKeepsFillBelowThreeQuarters ==
    op.name = "insert" =>
        /\ 4 * set.length < 3 * Len(set.data)
        /\ 4 * used(set).numerator < 3 * used(set).denominator

\* an insert has left more elements than three quarters of the first
\* capacity in a table that has grown once
C13_Witness ==
    /\ op.name = "insert"
    /\ 4 * set.length >= 3 * INITIAL_SIZE
    /\ Len(set.data) = 2 * INITIAL_SIZE

\* C14: for every start from 0 to 2^pegs - 1, solve(start) returns at least
\* one level, and the first level stores exactly one value,
\* normalize(start)
C14_FirstLevelHoldsNormalizedStart ==
    (pc = "done" /\ InRange(desc, start)) =>
        /\ Len(solution) >= 1
        /\ solution[1].length = 1
        /\ Stored(solution[1]) = {normalize(desc, start)}
        /\ contains(solution[1], normalize(desc, start))

\* C15: every state stored in level k of solve(start) has
\* popcount(start) - k bits set
C15_LevelsLoseOnePegEach ==
    pc = "done" =>
        \A k \in 0..(Len(solution) - 1) :
            \A v \in LevelStored(k) : PopCount(v) = PopCount(start) - k

\* the steps solve(start) has left at most: the levels not pushed yet count
\* for LevelSteps each, and within a level the slots of current.data not
\* visited yet for size + 2 each, less the moves tried on the slot visited
LevelSteps ==
    (compute_capacity_for_size(Shl(1, desc.pegs), INITIAL_SIZE) + 2)
        * (Len(desc.move_mask) + 2)

StepsLeft ==
    LET size   == Len(desc.move_mask)
        levels == PopCount(start) - Len(solution)
        slots  == Len(current.data) - fieldIdx
    IN  CASE pc = "start" -> LevelSteps * (levels + 1)
          [] pc = "while" -> LevelSteps * levels + LevelSteps - 1
          [] pc = "for"   -> LevelSteps * levels + (slots + 1) * (size + 2)
          [] pc = "move"  ->
                LevelSteps * levels + slots * (size + 2)
                    + (size + 1 - moveIdx)
          [] pc = "done"  -> 0

\* solve has a next step: the loop conditions of the statement pc is at
\* leave one branch open, and the probe of the fast_insert it is about to
\* make ends
SolveHasStep ==
    CASE pc = "start" -> TRUE
      [] pc = "while" -> current.length # 0 \/ current.length = 0
      [] pc = "for"   -> FieldsLeft # {} \/ FieldsLeft = {}
      [] pc = "move"  ->
            /\ moveIdx <= Len(desc.move_mask)
            /\ moveIdx < Len(desc.move_mask) =>
                LET field == current.data[fieldIdx + 1]
                IN  Legal(desc, field, moveIdx + 1) =>
                        find_or_empty(next.data,
                            normalize(desc, Jump(desc, field, moveIdx + 1)))
                            >= 0
      [] OTHER -> FALSE

\* C16: solve(start) terminates for every start from 1 to 2^pegs - 1 and
\* returns at most popcount(start) levels: the steps left are never
\* negative and every step of solve takes at least one away, solve has a
\* next step until it returns, and the levels returned are at most
\* popcount(start)
C16_SolveTerminates ==
    /\ []((0 < start /\ InRange(desc, start)) =>
            /\ StepsLeft >= 0
            /\ pc # "done" => SolveHasStep
            /\ pc = "done" => Len(solution) <= PopCount(start))
    /\ [][(0 < start /\ InRange(desc, start)) => StepsLeft' < StepsLeft]_vars

\* solve has returned as many levels as start has pegs, three or more
C16_Witness ==
    /\ pc = "done" /\ 0 < start /\ InRange(desc, start)
    /\ PopCount(start) >= 3
    /\ Len(solution) = PopCount(start)

\* bit b of state is set
BitIsSet(state, b) == (state \div (2 ^ b)) % 2 = 1

\* C17: the text to_string(state) returns has, under each character of the
\* layout in reading order, a space for '.', a line break for a line break,
\* and for the k-th 'o' (k from 0) 'x' if bit pegs - 1 - k of state is set
\* and '.' if not; on "ooooo" state 0b10100 gives "x.x.."
C17_ToStringWritesFromHighestBit ==
    (op.name = "to_string" /\ op.result.error = "") =>
        /\ Len(op.result.value) = Len(desc.layout)
        /\ \A i \in 1..Len(desc.layout) :
              LET k == Cardinality({j \in 1..(i - 1) : desc.layout[j] = "o"})
              IN  op.result.value[i] =
                    CASE desc.layout[i] = "."  -> " "
                      [] desc.layout[i] = "\n" -> "\n"
                      [] desc.layout[i] = "o"  ->
                            IF BitIsSet(op.arg, desc.pegs - 1 - k)
                            THEN "x" ELSE "."
        /\ (desc.layout = <<"o", "o", "o", "o", "o">> /\ op.arg = 20) =>
              op.result.value = <<"x", ".", "x", ".", ".">>

\* to_string was called on "ooooo" with 0b10100
C17_Witness ==
    /\ op.name = "to_string" /\ op.result.error = ""
    /\ desc.layout = <<"o", "o", "o", "o", "o">>
    /\ op.arg = 20

\* the bits of a mask
BitsOf(d, mask) == {b \in 0..(d.pegs - 1) : BitIsSet(mask, b)}

MoveBits(d) == {BitsOf(d, d.move_mask[i]) : i \in 1..Len(d.move_mask)}

\* the cells of mask moved as the symmetry moves them: the cell with bit
\* d.lut[y][x] goes to the cell with bit image[y][x]
MovedCells(d, image, mask) ==
    {image[p[1]][p[2]] :
        p \in {q \in (1..Len(d.lut)) \X (1..Len(d.lut[1])) :
                  d.lut[q[1]][q[2]] \in BitsOf(d, mask)}}

\* the candidate is a symmetry of the layout that takes some jump to three
\* cells that are no jump
BreaksSomeJump(d, func) ==
    LET image == ApplyCandidate(func, d.lut)
    IN  /\ have_same_shape(d.lut, image)
        /\ \E i \in 1..Len(d.move_mask) :
              MovedCells(d, image, d.move_mask[i]) \notin MoveBits(d)

\* C18: every compiled transformation takes every move_mask to a
\* move_mask, and a symmetry of the layout that takes some jump to three
\* cells that are no jump is not among the compiled transformations
C18_TransformationsPreserveMoveTable ==
    (op.name = "new" /\ op.result.error = "") =>
        /\ \A t \in 1..Len(desc.transformations) :
              \A i \in 1..Len(desc.move_mask) :
                  BitsOf(desc, ApplyTransformation(desc.transformations[t],
                                                   desc.move_mask[i]))
                      \in MoveBits(desc)
        /\ \A k \in 1..Len(Candidates(desc.lut)) :
              BreaksSomeJump(desc, Candidates(desc.lut)[k]) =>
                  \A t \in 1..Len(desc.transformations) :
                      desc.transformations[t] #
                          CompileTransformation(
                              ApplyCandidate(Candidates(desc.lut)[k],
                                             desc.lut))

\* a square board was constructed with Horizontal only: the flips are
\* compiled and the transpose, which breaks a jump, is not
C18_Witness ==
    /\ op.name = "new" /\ op.result.error = ""
    /\ desc.directions = <<"Horizontal">>
    /\ Len(desc.lut) = Len(desc.lut[1])
    /\ Len(desc.transformations) = 3
    /\ BreaksSomeJump(desc, "transpose")

\* the bit of cell (x, y), counted from 0
BitOfCell(d, x, y) == d.lut[y + 1][x + 1]

\* the descriptor of the reference table for the jump j = <<x, y, dir>>:
\* the bits of source, midpoint and destination
RefDescriptor(d, j) ==
    LET n == RefNeighbours(j[3], j[1], j[2])
        s == BitOfCell(d, j[1], j[2])
        m == BitOfCell(d, n[1][1], n[1][2])
        t == BitOfCell(d, n[2][1], n[2][2])
    IN  [move_mask |-> {s, m, t}, check_mask1 |-> {s, m},
         check_mask2 |-> {m, t}]

\* C19: the compiled move table is the reference table: one descriptor for
\* each occupiable source cell and chosen direction whose two neighbour
\* cells are on the board and occupiable (RightDiagonal from x > 2 only),
\* with move_mask the bits of source, midpoint and destination,
\* check_mask1 those of source and midpoint, check_mask2 those of midpoint
\* and destination, and no other descriptor
C19_MoveTableIsReferenceTable ==
    (op.name = "new" /\ op.result.error = "") =>
        LET jumps == RefJumps(desc.layout, desc.directions)
            table == {[move_mask   |-> BitsOf(desc, desc.move_mask[i]),
                       check_mask1 |-> BitsOf(desc, desc.check_mask1[i]),
                       check_mask2 |-> BitsOf(desc, desc.check_mask2[i])] :
                        i \in 1..Len(desc.move_mask)}
        IN  /\ Len(desc.move_mask) = Cardinality(jumps)
            /\ Len(desc.check_mask1) = Len(desc.move_mask)
            /\ Len(desc.check_mask2) = Len(desc.move_mask)
            /\ table = {RefDescriptor(desc, j) : j \in jumps}
            /\ \A i \in 1..Len(desc.move_mask) :
                  Cardinality(BitsOf(desc, desc.move_mask[i])) = 3

\* a board was constructed on which a RightDiagonal jump from column 2
\* would fit and on which only the LeftDiagonal jump is in the table
C19_Witness ==
    /\ op.name = "new" /\ op.result.error = ""
    /\ desc.directions = <<"LeftDiagonal", "RightDiagonal">>
    /\ Len(desc.move_mask) = 1
    /\ RefOccupiable(desc.layout, 2, 0)
    /\ RefOccupiable(desc.layout, 1, 1)
    /\ RefOccupiable(desc.layout, 0, 2)

\* C20: during solve, the table of the next frontier satisfies
\* 4 * length < 3 * capacity before and after every fast_insert, since
\* reserve(size) has left room for the inserts still to come for the
\* source state; the table has an empty slot and the probe of the
\* fast_insert about to be made ends
C20_NextFrontierHasRoom ==
    pc = "move" =>
        LET size == Len(desc.move_mask)
            field == current.data[fieldIdx + 1]
        IN  /\ 4 * next.length < 3 * Len(next.data)
            /\ 4 * (next.length + (size - moveIdx)) < 3 * Len(next.data)
            /\ \E i \in 1..Len(next.data) : next.data[i] = EMPTY_STATE
            /\ (moveIdx < size /\ Legal(desc, field, moveIdx + 1)) =>
                  find_or_empty(next.data,
                      normalize(desc, Jump(desc, field, moveIdx + 1))) >= 0

\* a fast_insert has been made into a table that reserve had enlarged, and
\* has left more elements than three quarters of the first capacity
C20_Witness ==
    /\ pc = "move" /\ moveIdx > 0
    /\ Len(next.data) = 2 * INITIAL_SIZE
    /\ 4 * next.length >= 3 * INITIAL_SIZE

\* some stored state of the set has a legal descriptor
HasLegalMove(d, bs) ==
    \E f \in Stored(bs) : \E i \in 1..Len(d.move_mask) : UnreducedLegal(d, f, i)

\* C21: when solve returns, no stored state of the last level has a legal
\* descriptor and every earlier level stores a state that has one; the
\* frontier that ended the loop, of length 0, is not among the levels, and
\* solve returns only from an empty frontier
C21_SolveStopsAtFirstEmptyFrontier ==
    /\ pc = "done" =>
          /\ current.length = 0 /\ Stored(current) = {}
          /\ Len(solution) >= 1
          /\ ~HasLegalMove(desc, solution[Len(solution)])
          /\ \A k \in 1..(Len(solution) - 1) : HasLegalMove(desc, solution[k])
          /\ \A k \in 1..Len(solution) : solution[k].length # 0
          /\ normalize(desc, start) # EMPTY_STATE =>
                \A k \in 1..Len(solution) : Stored(solution[k]) # {}
    /\ (pc = "while" /\ solution # <<>>) =>
          /\ current = next
          /\ current.length = 0
                <=> ~HasLegalMove(desc, solution[Len(solution)])

\* solve has returned three levels or more, the last with several states
C21_Witness ==
    /\ pc = "done" /\ InRange(desc, start)
    /\ Len(solution) >= 3
    /\ Cardinality(Stored(solution[Len(solution)])) >= 2

\* the shift groups of trans are pairwise disjoint, cover the bits
\* 0..pegs-1 and nothing else, and do not overlap once shifted
IsPermutationOfBits(d, trans) ==
    /\ \A a, b \in DOMAIN trans :
          a # b =>
              /\ BitAnd(trans[a], trans[b]) = 0
              /\ BitAnd(ShiftedGroup(trans[a], a, trans[a]),
                        ShiftedGroup(trans[b], b, trans[b])) = 0
    /\ UNION {BitsOf(d, trans[a]) : a \in DOMAIN trans} = 0..(d.pegs - 1)
    /\ \A a \in DOMAIN trans :
          /\ trans[a] > 0 /\ trans[a] < Shl(1, d.pegs)
          /\ PopCount(ShiftedGroup(trans[a], a, trans[a])) = PopCount(trans[a])

\* C22: each compiled transformation is a permutation of the bits
\* 0..pegs-1: its shift groups are pairwise disjoint, cover exactly these
\* bits and do not overlap once shifted, and the image of every state below
\* 2^pegs has as many bits set as the state and is below 2^pegs
C22_TransformationsPermuteBits ==
    (op.name = "new" /\ op.result.error = "") =>
        \A t \in 1..Len(desc.transformations) :
            /\ IsPermutationOfBits(desc, desc.transformations[t])
            /\ \A s \in 0..(Shl(1, desc.pegs) - 1) :
                  LET image == ApplyTransformation(desc.transformations[t], s)
                  IN  /\ PopCount(image) = PopCount(s)
                      /\ image < Shl(1, desc.pegs)

\* a board with blocked cells was constructed that has a transformation of
\* three shift groups or more, shifting to both sides
C22_Witness ==
    /\ op.name = "new" /\ op.result.error = ""
    /\ \E k \in 1..Len(desc.layout) : desc.layout[k] = "."
    /\ \E t \in 1..Len(desc.transformations) :
          /\ Cardinality(DOMAIN desc.transformations[t]) >= 3
          /\ \E a, b \in DOMAIN desc.transformations[t] : a < 0 /\ b > 0

\* the normalized successors of field by its legal descriptors
NormalizedSuccessors(d, field) ==
    {normalize(d, BitXor(field, d.move_mask[i])) :
        i \in {j \in 1..Len(d.move_mask) : UnreducedLegal(d, field, j)}}

\* C23: no normalized successor of a state by a legal descriptor is 0, for
\* every state solve can be started from and for the field in hand in the
\* search; so no fast_insert into the next frontier receives 0: the length
\* of the next frontier is the number of its slots that hold a value
C23_SuccessorsAreNotTheSentinel ==
    /\ pc = "start" => EMPTY_STATE \notin NormalizedSuccessors(desc, start)
    /\ pc = "move" =>
          /\ EMPTY_STATE \notin
                NormalizedSuccessors(desc, current.data[fieldIdx + 1])
          /\ next.length = Cardinality(NonEmptySlots(next))
    /\ pc \in {"for", "while", "done"} =>
          next.length = Cardinality(NonEmptySlots(next))

\* the search is about to make the last jump of a game, from a field of two
\* pegs, and the successor is not its own normalized state
C23_Witness ==
    /\ pc = "move" /\ moveIdx < Len(desc.move_mask)
    /\ InRange(desc, start) /\ Len(solution) > 0
    /\ LET field == current.data[fieldIdx + 1]
       IN  /\ PopCount(field) = 2
           /\ Legal(desc, field, moveIdx + 1)
           /\ normalize(desc, Jump(desc, field, moveIdx + 1))
                # Jump(desc, field, moveIdx + 1)

RECURSIVE IsPowerOfTwo(_)
IsPowerOfTwo(n) == n = 1 \/ (n > 1 /\ n % 2 = 0 /\ IsPowerOfTwo(n \div 2))

\* C24: reserve(n) keeps the stored values and length, whether or not it
\* rebuilds the table: each value stays in one slot and contains answers as
\* before; the capacity never decreases, and is always a power of two of at
\* least 32
C24_ReserveChangesLayoutOnly ==
    /\ [](IsPowerOfTwo(Len(set.data)) /\ Len(set.data) >= INITIAL_SIZE)
    /\ [][Len(set'.data) >= Len(set.data)]_vars
    /\ [][op'.name = "reserve" =>
            /\ Stored(set') = Stored(set)
            /\ set'.length = set.length
            /\ \A v \in Stored(set) : Cardinality(SlotsOf(set', v)) = 1
            /\ \A v \in 1..(MaxVal + 1) :
                  contains(set', v) <=> contains(set, v)]_vars

\* reserve has rebuilt a table that held ten values or more
C24_Witness ==
    /\ op.name = "reserve"
    /\ Len(set.data) > INITIAL_SIZE
    /\ Cardinality(Stored(set)) >= 10
    /\ set.length = Cardinality(Stored(set))

\* trans leaves every bit of the board where it is
IsIdentity(d, trans) ==
    \A b \in 0..(d.pegs - 1) : ApplyTransformation(trans, Shl(1, b)) = Shl(1, b)

\* C25: no compiled transformation of a constructed board is the identity:
\* each one moves at least one bit, on the boards of a single row or a
\* single column too
C25_NoTransformationIsIdentity ==
    (op.name = "new" /\ op.result.error = "") =>
        \A t \in 1..Len(desc.transformations) :
            /\ ~IsIdentity(desc, desc.transformations[t])
            /\ DOMAIN desc.transformations[t] # {0}

\* the place in the text of the cell in row y, column x (from 1)
TextPlace(d, y, x) == (y - 1) * (Len(d.lut[1]) + 1) + x

\* the cells of the board
Cells(d) == (1..Len(d.lut)) \X (1..Len(d.lut[1]))

\* C26: the position table gives the k-th occupiable cell in reading order
\* the index pegs - 1 - k, one index of 0..pegs-1 for each; and for every
\* state in range and every cell, to_string shows 'x' at the cell iff
\* to_vec has 1 there iff the bit the table gives the cell is set
C26_CodecsAgreeOnCells ==
    (op.name \in {"to_string", "to_vec"} /\ InRange(desc, op.arg)) =>
        LET text  == to_string(desc, op.arg).value
            array == to_vec(desc, op.arg).value
        IN  /\ op.result.error = ""
            /\ op.name = "to_string" => op.result.value = text
            /\ op.name = "to_vec" => op.result.value = array
            /\ \A c \in Cells(desc) :
                  LET k == Cardinality({j \in 1..(TextPlace(desc, c[1], c[2]) - 1) :
                                           desc.layout[j] = "o"})
                  IN  /\ desc.layout[TextPlace(desc, c[1], c[2])] = "o" =>
                            desc.lut[c[1]][c[2]] = desc.pegs - 1 - k
                      /\ desc.layout[TextPlace(desc, c[1], c[2])] # "o" =>
                            desc.lut[c[1]][c[2]] = -1
            /\ {desc.lut[c[1]][c[2]] : c \in Cells(desc)} \ {-1}
                  = 0..(desc.pegs - 1)
            /\ \A c \in Cells(desc) :
                  /\ text[TextPlace(desc, c[1], c[2])] = "x"
                        <=> array[c[1]][c[2]] = 1
                  /\ array[c[1]][c[2]] = 1
                        <=> /\ desc.lut[c[1]][c[2]] # -1
                            /\ BitIsSet(op.arg, desc.lut[c[1]][c[2]])

\* to_vec was called on a board of several rows with blocked cells, with a
\* state that is not its own mirror image in the bit order
C26_Witness ==
    /\ op.name = "to_vec" /\ InRange(desc, op.arg)
    /\ Len(desc.lut) > 1
    /\ \E c \in Cells(desc) : desc.lut[c[1]][c[2]] = -1
    /\ \E b \in 0..(desc.pegs - 1) :
          BitIsSet(op.arg, b) /\ ~BitIsSet(op.arg, desc.pegs - 1 - b)

\* the rules a layout breaks, in the order of the claim: 1 an empty layout
\* or a character that is not allowed, 2 a number of pegs outside 3..63,
\* 3 rows of unequal length, 4 no derivable jump (asked of the layouts
\* that break none of the others, for a jump needs a grid)
BrokenRules(layout, directions) ==
    LET textual == \/ Len(layout) = 0
                   \/ \E k \in 1..Len(layout) : layout[k] \notin {".", "o", "\n"}
        count   == Cardinality(PegCharacters(layout))
        ragged  == Cardinality(RowLengths(layout)) > 1
    IN  (IF textual THEN {1} ELSE {})
        \cup (IF count < 3 \/ count > 63 THEN {2} ELSE {})
        \cup (IF ragged THEN {3} ELSE {})
        \cup (IF ~textual /\ ~ragged /\ count >= 3
                 /\ RefJumps(layout, directions) = {} THEN {4} ELSE {})

\* the rule an error message reports
RuleOf(message) ==
    CASE message \in {"layout cannot be empty",
                      "layout contains the invalid character"} -> 1
      [] message \in {"peg solitaire requires at least 3 pegs",
                      "implementation supports only 63 bit"} -> 2
      [] message = "not every layout line has the same length" -> 3
      [] message = "No moves are possible" -> 4
      [] OTHER -> 0

=============================================================================
